---- MODULE Spec2Model ----
(***************************************************************************)
(* Model of the graphics-context lifecycle of CheckEngine:                 *)
(*   src/graphics/context/glfw_context.cpp  (destroy_glfw_window,          *)
(*       global_glfw_context, glfw_context)                                *)
(*   src/util/intrinsics/bootable_game.cpp  (bootable_game)                *)
(*                                                                         *)
(* Threads are the affinity ("main") thread and the worker threads.  Every *)
(* action is one atomic step of one thread: a step holds at most one       *)
(* access to state shared between threads (the live-context counter, the   *)
(* deferred task queue, the native library), together with the thread-     *)
(* local statements around it.                                             *)
(***************************************************************************)
EXTENDS Integers, Sequences, FiniteSets, TLC

\* ------------------------------------------------------------- bounds
MaxWorkers == 2
MaxHandles == 2
\* The bootable_game objects built in the worker-bootstrapper specification.
MaxGames == 1

\* Thread 0 is the affinity ("main") thread, the others are workers.
Main == 0
Workers == 1..MaxWorkers
Threads == {Main} \cup Workers
\* A Context Handle and its native window share one name; NULL is no window.
Handles == 1..MaxHandles
NULL == 0

VARIABLES
    active_contexts,  \* global_glfw_context::active_contexts
    thread_queue,     \* global_glfw_context::thread_queue (pending tasks, oldest first)
    posted,           \* an empty event posted by glfwPostEmptyEvent is pending
    terminated,       \* glfwTerminate has been called
    hstate,           \* per Context Handle: where its lifecycle stands
    howner,           \* per Context Handle: the thread that constructs / constructed it
    held,             \* per Context Handle: its constructor's caller still owns a reference
    refs,             \* per Context Handle: owners of the shared reference (use_count)
    cur,              \* per thread: the context current on it (NULL = none)
    pc,               \* per thread: position in the code
    th,               \* per thread: the handle it is constructing / destroying / running
    final,            \* main thread: the running execute_queue is the one of line 62
    returned,         \* park_thread has returned (and has not been entered again)
    started,          \* per worker: boot_thread has spawned it
    reg,              \* per worker: its per_thread registry entries, by type
    shown,            \* per worker: the window utility instance it revealed
    wlocal,           \* per worker: the local `window` of line 20
    built,            \* per worker: window utility instances constructed on it
    acq,              \* history: per worker, get_or_create<glfw_window> calls
    rel,              \* history: per worker, remove_reference<glfw_window> calls
    step,             \* history: per worker, the latest step of the routine
    madecur,          \* history: per handle, a user has called make_current on it
    exec,             \* history: the glfwDestroyWindow calls made, in order
    enq,              \* history: the tasks added to thread_queue, in order
    snap,             \* history: thread_queue when the last execute_queue call began
    ran,              \* history: the tasks run by the last execute_queue call
    incs,             \* history: per handle, the increments of the counter it made
    decs,             \* history: per handle, the decrements of the counter it made
    peak              \* history: the largest value the counter has had

\* The state of the coordinator, of the handles, of the threads, of the
\* worker bootstrapper, and the history.
coordv == << active_contexts, thread_queue, posted, terminated >>
handlev == << hstate, howner, held, refs >>
threadv == << cur, pc, th >>
parkv == << final, returned >>
bootv == << started, reg, shown, wlocal, built, acq, rel, step, madecur >>
histv == << exec, enq, snap, ran, incs, decs, peak >>
vars == << coordv, handlev, threadv, parkv, bootv, histv >>

\* ------------------------------------------------------------ helpers
Range(s) == { s[i] : i \in 1..Len(s) }
Max(a, b) == IF a > b THEN a ELSE b

\* The next Context Handle to be constructed.
Fresh == { h \in Handles : hstate[h] = "none" /\ \A k \in 1..(h-1) : hstate[k] # "none" }

\* active_contexts is an atomic counter: ++ and -- are one indivisible
\* read-modify-write.
atomic_add(counter, d) == counter + d

\* queue<T>: add appends, remove pops the earliest-added, get_size counts.
add(q, task) == Append(q, task)
get_size(q) == Len(q)
first(q) == Head(q)
rest(q) == Tail(q)

\* The positions of the affinity thread inside park_thread.
ParkPCs == { "loop", "wait", "size", "pop" }
InPark == pc[Main] \in ParkPCs

\* per_thread<T>: one entry per (type, thread), holding the thread's
\* instance and its reference count.  get_or_create constructs the
\* instance on the first call and counts one more reference on every later
\* one, set installs a given instance, remove_reference counts one less
\* and at zero destroys the instance and removes the entry.
NoEntry == [n |-> 0, obj |-> NULL]
NoReg == [ctx |-> NoEntry, win |-> NoEntry]
get_or_create(e, fresh) ==
    IF e.n = 0 THEN [n |-> 1, obj |-> fresh] ELSE [e EXCEPT !.n = @ + 1]
set(e, value) == [n |-> 1, obj |-> value]
remove_reference(e) ==
    IF e.n > 1 THEN [e EXCEPT !.n = @ - 1] ELSE NoEntry

Init ==
    /\ active_contexts = 0
    /\ thread_queue = << >>
    /\ posted = FALSE
    /\ terminated = FALSE
    /\ hstate = [h \in Handles |-> "none"]
    /\ howner = [h \in Handles |-> Main]
    /\ held = [h \in Handles |-> FALSE]
    /\ refs = [h \in Handles |-> 0]
    /\ cur = [t \in Threads |-> NULL]
    /\ pc = [t \in Threads |-> "idle"]
    /\ th = [t \in Threads |-> NULL]
    /\ final = FALSE
    /\ returned = FALSE
    /\ started = [w \in Workers |-> FALSE]
    /\ reg = [w \in Workers |-> NoReg]
    /\ shown = [w \in Workers |-> NULL]
    /\ wlocal = [w \in Workers |-> NULL]
    /\ built = [w \in Workers |-> 0]
    /\ acq = [w \in Workers |-> 0]
    /\ rel = [w \in Workers |-> 0]
    /\ step = [w \in Workers |-> [ev |-> "none", k |-> 0]]
    /\ madecur = [h \in Handles |-> FALSE]
    /\ exec = << >>
    /\ enq = << >>
    /\ snap = << >>
    /\ ran = << >>
    /\ incs = [h \in Handles |-> 0]
    /\ decs = [h \in Handles |-> 0]
    /\ peak = 0

\* --------------------------------------------------- glfw_context (ctor)
\* Mutant: a binding that is one for the whole process, so that making a
\* context current on one thread takes the other threads' bindings away.
MakeContextCurrent_global(t, window) ==
    cur' = [u \in Threads |-> IF u = t THEN window ELSE NULL]

\* glfwMakeContextCurrent(window) on thread t.
MakeContextCurrent(t, window) == cur' = [cur EXCEPT ![t] = window]

\* Lines 71-79: the hints, glfwCreateWindow (NULL when the version is not
\* supported or the library is torn down), pointer.reset, make_current.
CtorCreate(t, ok) ==
    /\ pc[t] = "idle"
    /\ \E h \in Fresh :
        LET made == ok /\ ~terminated IN
        /\ hstate' = [hstate EXCEPT ![h] = IF made THEN "created" ELSE "nowin"]
        /\ howner' = [howner EXCEPT ![h] = t]
        /\ MakeContextCurrent(t, IF made THEN h ELSE NULL)
        /\ th' = [th EXCEPT ![t] = h]
    /\ pc' = [pc EXCEPT ![t] = "ctor"]
    /\ UNCHANGED << coordv, held, refs, parkv, bootv, histv >>

\* Mutant: a constructor without the relinquish of line 89.
CtorFinish_keepcurrent(t) ==
    /\ pc[t] = "ctor"
    /\ hstate[th[t]] = "created"
    /\ hstate' = [hstate EXCEPT ![th[t]] = "live"]
    /\ held' = [held EXCEPT ![th[t]] = TRUE]
    /\ refs' = [refs EXCEPT ![th[t]] = 1]
    /\ active_contexts' = atomic_add(active_contexts, 1)
    /\ incs' = [incs EXCEPT ![th[t]] = @ + 1]
    /\ peak' = Max(peak, active_contexts + 1)
    /\ pc' = [pc EXCEPT ![t] = "idle"]
    /\ th' = [th EXCEPT ![t] = NULL]
    /\ UNCHANGED << thread_queue, posted, terminated, howner, cur, parkv,
                    bootv, exec, enq, snap, ran, decs >>

\* Lines 81-91, glewInit succeeded: relinquish, count the handle, return to
\* the caller, which owns the new handle.
CtorFinish(t) ==
    /\ pc[t] = "ctor"
    /\ hstate[th[t]] = "created"
    /\ hstate' = [hstate EXCEPT ![th[t]] = "live"]
    /\ held' = [held EXCEPT ![th[t]] = TRUE]
    /\ refs' = [refs EXCEPT ![th[t]] = 1]
    /\ MakeContextCurrent(t, NULL)
    /\ active_contexts' = atomic_add(active_contexts, 1)
    /\ incs' = [incs EXCEPT ![th[t]] = @ + 1]
    /\ peak' = Max(peak, active_contexts + 1)
    /\ pc' = [pc EXCEPT ![t] = "idle"]
    /\ th' = [th EXCEPT ![t] = NULL]
    /\ UNCHANGED << thread_queue, posted, terminated, howner, parkv, bootv,
                    exec, enq, snap, ran, decs >>

\* Mutant: the increment of line 91 placed before the glewInit test, so that
\* a failing construction has counted the handle.
CtorFail_counted(t) ==
    /\ pc[t] = "ctor"
    /\ terminated' = TRUE
    /\ active_contexts' = atomic_add(active_contexts, 1)
    /\ incs' = [incs EXCEPT ![th[t]] = @ + 1]
    /\ pc' = [pc EXCEPT ![t] = "throw"]
    /\ UNCHANGED << thread_queue, posted, handlev, cur, th, parkv, bootv,
                    exec, enq, snap, ran, decs, peak >>

\* Lines 81-83, glewInit failed (always so without a current context):
\* glfwTerminate, then the throw of line 85 is pending.
CtorFail(t) ==
    /\ pc[t] = "ctor"
    /\ terminated' = TRUE
    /\ pc' = [pc EXCEPT ![t] = "throw"]
    /\ UNCHANGED << active_contexts, thread_queue, posted, handlev, cur, th,
                    parkv, bootv, histv >>

\* Mutant: a deleter that destroys the window where the reference is dropped
\* instead of scheduling the destruction.
Deleter_inline(t, h) ==
    /\ MakeContextCurrent(t, NULL)
    /\ exec' = Append(exec, [win |-> h, by |-> t, at |-> pc[t]])
    /\ posted' = TRUE
    /\ UNCHANGED << thread_queue, enq >>

\* Mutant: a deleter without the relinquish of line 10.
Deleter_norelinquish(t, h) ==
    /\ thread_queue' = add(thread_queue, h)
    /\ enq' = Append(enq, h)
    /\ posted' = TRUE
    /\ UNCHANGED << cur, exec >>

\* destroy_glfw_window::operator(), lines 7-23: relinquish the calling
\* thread's context, add the one-shot destroy task, post an empty event.
\* glfwDestroyWindow is in the task, not here.
Deleter(t, h) ==
    /\ MakeContextCurrent(t, NULL)
    /\ thread_queue' = add(thread_queue, h)
    /\ enq' = Append(enq, h)
    /\ posted' = TRUE
    /\ UNCHANGED exec

\* Line 85: the exception leaves the constructor; the members built so far
\* are destroyed, so a non-null pointer goes through the deleter.  The
\* destructor body (line 96) does not run for a handle that was never built.
CtorThrow(t) ==
    /\ pc[t] = "throw"
    /\ IF hstate[th[t]] = "created"
         THEN Deleter(t, th[t])
         ELSE UNCHANGED << cur, thread_queue, enq, posted, exec >>
    /\ hstate' = [hstate EXCEPT ![th[t]] = "failed"]
    /\ pc' = [pc EXCEPT ![t] = "idle"]
    /\ th' = [th EXCEPT ![t] = NULL]
    /\ UNCHANGED << active_contexts, terminated, howner, held, refs, parkv,
                    bootv, snap, ran, incs, decs, peak >>

\* --------------------------------------------------- glfw_context (dtor)
\* Mutant: a destructor without the decrement of line 96.
Destruct_nodecrement(t, h) ==
    /\ hstate' = [hstate EXCEPT ![h] = "dying"]
    /\ refs' = [refs EXCEPT ![h] = 0]
    /\ UNCHANGED << active_contexts, decs >>
    /\ pc' = [pc EXCEPT ![t] = "dtor"]
    /\ th' = [th EXCEPT ![t] = h]

\* Lines 94-97, run by the thread that drops the last reference to handle
\* h: the destructor body runs first and decrements the counter.
Destruct(t, h) ==
    /\ hstate' = [hstate EXCEPT ![h] = "dying"]
    /\ refs' = [refs EXCEPT ![h] = 0]
    /\ active_contexts' = atomic_add(active_contexts, -1)
    /\ decs' = [decs EXCEPT ![h] = @ + 1]
    /\ pc' = [pc EXCEPT ![t] = "dtor"]
    /\ th' = [th EXCEPT ![t] = h]

\* The thread that constructed a handle drops it, as the only owner.
DtorBody(t) ==
    /\ pc[t] = "idle"
    /\ \E h \in Handles :
        /\ howner[h] = t /\ held[h] /\ refs[h] = 1
        /\ hstate[h] = "live"
        /\ held' = [held EXCEPT ![h] = FALSE]
        /\ Destruct(t, h)
    /\ UNCHANGED << thread_queue, posted, terminated, howner, cur, parkv,
                    bootv, exec, enq, snap, ran, incs, peak >>

\* After the body the member `pointer` is destroyed: lines 7-23.
DtorDeleter(t) ==
    /\ pc[t] = "dtor"
    /\ hstate[th[t]] = "dying"
    /\ Deleter(t, th[t])
    /\ hstate' = [hstate EXCEPT ![th[t]] = "released"]
    /\ pc' = [pc EXCEPT ![t] = "idle"]
    /\ th' = [th EXCEPT ![t] = NULL]
    /\ UNCHANGED << active_contexts, terminated, howner, held, refs, parkv,
                    bootv, snap, ran, incs, decs, peak >>

\* ----------------------------------- global_glfw_context::park_thread
\* The affinity thread calls park_thread (line 53).
ParkEnter ==
    /\ pc[Main] = "idle"
    /\ pc' = [pc EXCEPT ![Main] = "loop"]
    /\ returned' = FALSE
    /\ UNCHANGED << coordv, handlev, cur, th, final, bootv, histv >>

\* Line 55: the loop test.  When it fails, line 62 calls execute_queue.
ParkTest ==
    /\ pc[Main] = "loop"
    /\ IF active_contexts > 0
         THEN /\ pc' = [pc EXCEPT ![Main] = "wait"]
              /\ UNCHANGED << final, snap, ran >>
         ELSE /\ pc' = [pc EXCEPT ![Main] = "size"]
              /\ final' = TRUE
              /\ snap' = thread_queue
              /\ ran' = << >>
    /\ UNCHANGED << coordv, handlev, cur, th, returned, bootv, exec, enq,
                    incs, decs, peak >>

\* Line 57: glfwWaitEventsTimeout returns (an event, or the timeout); line
\* 59 calls execute_queue.
ParkWait ==
    /\ pc[Main] = "wait"
    /\ posted' = FALSE
    /\ pc' = [pc EXCEPT ![Main] = "size"]
    /\ final' = FALSE
    /\ snap' = thread_queue
    /\ ran' = << >>
    /\ UNCHANGED << active_contexts, thread_queue, terminated, handlev, cur,
                    th, returned, bootv, exec, enq, incs, decs, peak >>

\* ----------------------------------- global_glfw_context::execute_queue
\* Mutant: the loop test of line 43 off by one (get_size() > 1), which leaves
\* the last task in the queue.
SizeTest_offbyone ==
    /\ pc[Main] = "size"
    /\ IF get_size(thread_queue) > 1
         THEN /\ pc' = [pc EXCEPT ![Main] = "pop"]
              /\ UNCHANGED << final, returned >>
         ELSE /\ pc' = [pc EXCEPT ![Main] = IF final THEN "idle" ELSE "loop"]
              /\ returned' = final
              /\ final' = FALSE
    /\ UNCHANGED << coordv, handlev, cur, th, bootv, histv >>

\* Mutant: a loop test that does not look at the size (get_size() >= 0), so
\* that remove() is called on an empty queue.
SizeTest_always ==
    /\ pc[Main] = "size"
    /\ IF get_size(thread_queue) >= 0
         THEN /\ pc' = [pc EXCEPT ![Main] = "pop"]
              /\ UNCHANGED << final, returned >>
         ELSE /\ pc' = [pc EXCEPT ![Main] = IF final THEN "idle" ELSE "loop"]
              /\ returned' = final
              /\ final' = FALSE
    /\ UNCHANGED << coordv, handlev, cur, th, bootv, histv >>

\* Line 43: the test of get_size.  When it fails execute_queue returns: to
\* the loop test (line 55), or out of park_thread (line 63).
SizeTest ==
    /\ pc[Main] = "size"
    /\ IF get_size(thread_queue) > 0
         THEN /\ pc' = [pc EXCEPT ![Main] = "pop"]
              /\ UNCHANGED << final, returned >>
         ELSE /\ pc' = [pc EXCEPT ![Main] = IF final THEN "idle" ELSE "loop"]
              /\ returned' = final
              /\ final' = FALSE
    /\ UNCHANGED << coordv, handlev, cur, th, bootv, histv >>

\* Mutant: the drain takes the task added last instead of the earliest one.
PopRun_lifo ==
    /\ pc[Main] = "pop"
    /\ get_size(thread_queue) > 0
    /\ LET last == thread_queue[Len(thread_queue)] IN
        /\ exec' = Append(exec, [win |-> last, by |-> Main, at |-> pc[Main]])
        /\ ran' = Append(ran, last)
    /\ thread_queue' = SubSeq(thread_queue, 1, Len(thread_queue) - 1)
    /\ pc' = [pc EXCEPT ![Main] = "size"]
    /\ UNCHANGED << active_contexts, posted, terminated, handlev, cur, th,
                    parkv, bootv, enq, snap, incs, decs, peak >>

\* Lines 45-49: remove() blocks until a task is there, the task runs
\* (glfwDestroyWindow, line 16), returns true and is deleted.
PopRun ==
    /\ pc[Main] = "pop"
    /\ get_size(thread_queue) > 0
    /\ exec' = Append(exec, [win |-> first(thread_queue), by |-> Main, at |-> pc[Main]])
    /\ ran' = Append(ran, first(thread_queue))
    /\ thread_queue' = rest(thread_queue)
    /\ pc' = [pc EXCEPT ![Main] = "size"]
    /\ UNCHANGED << active_contexts, posted, terminated, handlev, cur, th,
                    parkv, bootv, enq, snap, incs, decs, peak >>

\* -------------------------------------------------------- specification
\* Context Handles constructed and dropped by any thread, the affinity
\* thread parking.
Next ==
    \/ \E t \in Threads, ok \in BOOLEAN : CtorCreate(t, ok)
    \/ \E t \in Threads : CtorFinish(t)
    \/ \E t \in Threads : CtorFail(t)
    \/ \E t \in Threads : CtorThrow(t)
    \/ \E t \in Threads : DtorBody(t)
    \/ \E t \in Threads : DtorDeleter(t)
    \/ ParkEnter
    \/ ParkTest
    \/ ParkWait
    \/ SizeTest
    \/ PopRun

Spec == Init /\ [][Next]_vars

\* Fairness: a thread that is inside a function keeps running (the OS
\* schedules every thread), and the timed wait of line 57 always ends.
\* Calling the constructor, dropping a handle or calling park_thread is the
\* application's choice and is not forced.
ParkSteps == ParkTest \/ ParkWait \/ SizeTest \/ PopRun
Running(t) == CtorFinish(t) \/ CtorFail(t) \/ CtorThrow(t) \/ DtorDeleter(t)

FairSpec ==
    /\ Init /\ [][Next]_vars
    /\ WF_vars(ParkSteps)
    /\ \A t \in Threads : WF_vars(Running(t))

\* ------------------------------------------------------ bootable_game
\* The bootable_game constructor (lines 5-11) is the Context Handle
\* constructor run by its caller, the main thread: CtorCreate(Main, ok) and
\* the steps after it.  The game's `context` is the reference the caller
\* holds (held).

\* boot_thread, lines 53-56: a new detached thread gets a copy of the game,
\* and with it one more reference to the game's context.
boot_thread(h, w) ==
    /\ pc[Main] = "idle"
    /\ howner[h] = Main /\ held[h] /\ hstate[h] = "live"
    /\ ~started[w]
    /\ \A v \in 1..(w-1) : started[v]
    /\ started' = [started EXCEPT ![w] = TRUE]
    /\ refs' = [refs EXCEPT ![h] = @ + 1]
    /\ pc' = [pc EXCEPT ![w] = "set"]
    /\ th' = [th EXCEPT ![w] = h]
    /\ UNCHANGED << coordv, hstate, howner, held, cur, parkv, reg, shown,
                    wlocal, built, acq, rel, step,
                    madecur, histv >>

\* The worker routine records each of its steps; k counts them modulo 3
\* (the length of one iteration), so that a step repeated is seen as a
\* new one.
Emit(w, e) == step' = [step EXCEPT ![w] = [ev |-> e, k |-> (@.k + 1) % 3]]

\* park_thread line 16: per_thread<glfw_context>::set installs the shared
\* context as the thread's instance; the registry keeps a reference to it.
WorkerSet(w) ==
    /\ pc[w] = "set"
    /\ reg' = [reg EXCEPT ![w].ctx = set(@, th[w])]
    /\ refs' = [refs EXCEPT ![th[w]] = @ + 1]
    /\ pc' = [pc EXCEPT ![w] = "bind"]
    /\ Emit(w, "set")
    /\ UNCHANGED << coordv, hstate, howner, held, cur, th, parkv, started,
                    shown, wlocal, built, acq, rel,
                    madecur, histv >>

\* glfw_context::make_current, lines 99-102 of glfw_context.cpp.
make_current(t, h) == MakeContextCurrent(t, h)

\* Line 17: get_or_create returns the installed instance and counts one
\* more reference; make_current binds that instance to this thread.
WorkerBind(w) ==
    /\ pc[w] = "bind"
    /\ reg' = [reg EXCEPT ![w].ctx = get_or_create(@, NULL)]
    /\ make_current(w, reg'[w].ctx.obj)
    /\ madecur' = [madecur EXCEPT ![reg'[w].ctx.obj] = TRUE]
    /\ pc' = [pc EXCEPT ![w] = "window"]
    /\ Emit(w, "bind")
    /\ UNCHANGED << coordv, handlev, th, parkv, started, shown, wlocal, built,
                    acq, rel, histv >>

\* Line 20: the first get_or_create of the window utility constructs it
\* in the registry; the local `window` keeps what the call returned.
WorkerWindow(w) ==
    /\ pc[w] = "window"
    /\ reg' = [reg EXCEPT ![w].win = get_or_create(@, built[w] + 1)]
    /\ built' = [built EXCEPT ![w] = IF reg[w].win.n = 0 THEN @ + 1 ELSE @]
    /\ acq' = [acq EXCEPT ![w] = @ + 1]
    /\ wlocal' = [wlocal EXCEPT ![w] = reg'[w].win.obj]
    /\ pc' = [pc EXCEPT ![w] = "start"]
    /\ Emit(w, "window")
    /\ UNCHANGED << coordv, handlev, cur, th, parkv, started, shown, rel,
                    madecur, histv >>

\* Line 28: the start callback.
WorkerStart(w) ==
    /\ pc[w] = "start"
    /\ pc' = [pc EXCEPT ![w] = "show"]
    /\ Emit(w, "start")
    /\ UNCHANGED << coordv, handlev, cur, th, parkv, started, reg, shown,
                    wlocal, built, acq, rel,
                    madecur, histv >>

\* Line 30: get_or_create counts one more reference to the window utility,
\* show reveals the instance the call returned.
WorkerShow(w) ==
    /\ pc[w] = "show"
    /\ reg' = [reg EXCEPT ![w].win = get_or_create(@, built[w] + 1)]
    /\ built' = [built EXCEPT ![w] = IF reg[w].win.n = 0 THEN @ + 1 ELSE @]
    /\ acq' = [acq EXCEPT ![w] = @ + 1]
    /\ shown' = [shown EXCEPT ![w] = reg'[w].win.obj]
    /\ pc' = [pc EXCEPT ![w] = "frame"]
    /\ Emit(w, "show")
    /\ UNCHANGED << coordv, handlev, cur, th, parkv, started, wlocal, rel,
                    madecur, histv >>

\* Line 35: glfwWindowShouldClose is tested at the top of each iteration;
\* the loop is left when it holds.
WorkerFrame(w, close) ==
    /\ pc[w] = "frame"
    /\ pc' = [pc EXCEPT ![w] = IF close THEN "rel1" ELSE "update"]
    /\ Emit(w, IF close THEN "close" ELSE "open")
    /\ UNCHANGED << coordv, handlev, cur, th, parkv, started, reg, shown,
                    wlocal, built, acq, rel,
                    madecur, histv >>

\* Lines 37-41: the update callback, then glGetError is read and logged.
WorkerUpdate(w) ==
    /\ pc[w] = "update"
    /\ pc' = [pc EXCEPT ![w] = "swap"]
    /\ Emit(w, "update")
    /\ UNCHANGED << coordv, handlev, cur, th, parkv, started, reg, shown,
                    wlocal, built, acq, rel,
                    madecur, histv >>

\* A swap that goes on to the next update without the test of line 35.
WorkerSwap_noretest(w) ==
    /\ pc[w] = "swap"
    /\ pc' = [pc EXCEPT ![w] = "update"]
    /\ Emit(w, "swap")
    /\ UNCHANGED << coordv, handlev, cur, th, parkv, started, reg, shown,
                    wlocal, built, acq, rel,
                    madecur, histv >>

\* Line 43: one swap_buffers, then back to the test of line 35.
WorkerSwap(w) ==
    /\ pc[w] = "swap"
    /\ pc' = [pc EXCEPT ![w] = "frame"]
    /\ Emit(w, "swap")
    /\ UNCHANGED << coordv, handlev, cur, th, parkv, started, reg, shown,
                    wlocal, built, acq, rel,
                    madecur, histv >>

\* A first release that destroys the instance while a reference is left.
WorkerRelease1_drop(w) ==
    /\ pc[w] = "rel1"
    /\ reg' = [reg EXCEPT ![w].win = NoEntry]
    /\ rel' = [rel EXCEPT ![w] = @ + 1]
    /\ pc' = [pc EXCEPT ![w] = "rel2"]
    /\ Emit(w, "release")
    /\ UNCHANGED << coordv, handlev, cur, th, parkv, started, shown, wlocal,
                    built, acq,
                    madecur, histv >>

\* Line 46: remove_reference on the window utility.
WorkerRelease1(w) ==
    /\ pc[w] = "rel1"
    /\ reg' = [reg EXCEPT ![w].win = remove_reference(@)]
    /\ rel' = [rel EXCEPT ![w] = @ + 1]
    /\ pc' = [pc EXCEPT ![w] = "rel2"]
    /\ Emit(w, "release")
    /\ UNCHANGED << coordv, handlev, cur, th, parkv, started, shown, wlocal,
                    built, acq,
                    madecur, histv >>

\* Line 50: remove_reference on the window utility, again.
WorkerRelease2(w) ==
    /\ pc[w] = "rel2"
    /\ reg' = [reg EXCEPT ![w].win = remove_reference(@)]
    /\ rel' = [rel EXCEPT ![w] = @ + 1]
    /\ pc' = [pc EXCEPT ![w] = "exit"]
    /\ Emit(w, "release")
    /\ UNCHANGED << coordv, handlev, cur, th, parkv, started, shown, wlocal,
                    built, acq,
                    madecur, histv >>

\* Line 51: park_thread returns and the thread's copy of the game is
\* destroyed; when it held the last reference the handle is destroyed here.
WorkerExit(w) ==
    /\ pc[w] = "exit"
    /\ IF refs[th[w]] = 1
         THEN /\ Destruct(w, th[w])
              /\ UNCHANGED peak
         ELSE /\ refs' = [refs EXCEPT ![th[w]] = @ - 1]
              /\ pc' = [pc EXCEPT ![w] = "idle"]
              /\ th' = [th EXCEPT ![w] = NULL]
              /\ UNCHANGED << active_contexts, hstate, decs, peak >>
    /\ UNCHANGED << thread_queue, posted, terminated, howner, held, cur, parkv,
                    bootv, exec, enq, snap, ran, incs >>

\* The game goes out of scope on the main thread while copies of it, or a
\* registry, still share its context.
GameRelease(h) ==
    /\ pc[Main] = "idle"
    /\ howner[h] = Main /\ held[h] /\ refs[h] > 1
    /\ held' = [held EXCEPT ![h] = FALSE]
    /\ refs' = [refs EXCEPT ![h] = @ - 1]
    /\ UNCHANGED << coordv, hstate, howner, threadv, parkv, bootv, histv >>

\* Games built, booted and dropped by the main thread, the workers running
\* the worker routine, the main thread parking.
NextBoot ==
    \/ \E ok \in BOOLEAN : Fresh \subseteq 1..MaxGames /\ CtorCreate(Main, ok)
    \/ CtorFinish(Main)
    \/ CtorFail(Main)
    \/ CtorThrow(Main)
    \/ \E h \in Handles, w \in Workers : boot_thread(h, w)
    \/ \E w \in Workers : WorkerSet(w)
    \/ \E w \in Workers : WorkerBind(w)
    \/ \E w \in Workers : WorkerWindow(w)
    \/ \E w \in Workers : WorkerStart(w)
    \/ \E w \in Workers : WorkerShow(w)
    \/ \E w \in Workers, close \in BOOLEAN : WorkerFrame(w, close)
    \/ \E w \in Workers : WorkerUpdate(w)
    \/ \E w \in Workers : WorkerSwap(w)
    \/ \E w \in Workers : WorkerRelease1(w)
    \/ \E w \in Workers : WorkerRelease2(w)
    \/ \E w \in Workers : WorkerExit(w)
    \/ \E h \in Handles : GameRelease(h)
    \/ DtorBody(Main)
    \/ \E t \in Threads : DtorDeleter(t)
    \/ ParkEnter
    \/ ParkTest
    \/ ParkWait
    \/ SizeTest
    \/ PopRun

SpecBoot == Init /\ [][NextBoot]_vars

\* A thread makes a handle it constructed and still owns current on itself
\* (glfw_context::make_current, lines 99-102).
MakeCurrent(t, h) ==
    /\ pc[t] = "idle"
    /\ howner[h] = t /\ held[h] /\ hstate[h] = "live"
    /\ cur[t] # h
    /\ make_current(t, h)
    /\ madecur' = [madecur EXCEPT ![h] = TRUE]
    /\ UNCHANGED << coordv, handlev, pc, th, parkv, started, reg, shown,
                    wlocal, built, acq, rel, step, histv >>

\* Context Handles constructed (with success), made current and dropped by
\* the worker threads, the affinity thread parking.
NextCurrent ==
    \/ \E w \in Workers : CtorCreate(w, TRUE)
    \/ \E w \in Workers : CtorFinish(w)
    \/ \E w \in Workers, h \in Handles : MakeCurrent(w, h)
    \/ \E w \in Workers : DtorBody(w)
    \/ \E w \in Workers : DtorDeleter(w)
    \/ ParkEnter
    \/ ParkTest
    \/ ParkWait
    \/ SizeTest
    \/ PopRun

SpecCurrent == Init /\ [][NextCurrent]_vars

\* The worker routine alone: games built, booted and dropped by the main
\* thread and the workers running the routine, the main thread not parking.
NextWorker ==
    \/ \E ok \in BOOLEAN : Fresh \subseteq 1..MaxGames /\ CtorCreate(Main, ok)
    \/ CtorFinish(Main)
    \/ CtorFail(Main)
    \/ CtorThrow(Main)
    \/ \E h \in Handles, w \in Workers : boot_thread(h, w)
    \/ \E w \in Workers : WorkerSet(w)
    \/ \E w \in Workers : WorkerBind(w)
    \/ \E w \in Workers : WorkerWindow(w)
    \/ \E w \in Workers : WorkerStart(w)
    \/ \E w \in Workers : WorkerShow(w)
    \/ \E w \in Workers, close \in BOOLEAN : WorkerFrame(w, close)
    \/ \E w \in Workers : WorkerUpdate(w)
    \/ \E w \in Workers : WorkerSwap(w)
    \/ \E w \in Workers : WorkerRelease1(w)
    \/ \E w \in Workers : WorkerRelease2(w)
    \/ \E w \in Workers : WorkerExit(w)
    \/ \E h \in Handles : GameRelease(h)

SpecWorker == Init /\ [][NextWorker]_vars

\* ------------------------------------------------------------ properties
LiveHandles == { h \in Handles : hstate[h] = "live" }
Count(s, x) == Cardinality({ i \in 1..Len(s) : s[i] = x })
NoDup(s) == \A i, j \in 1..Len(s) : i # j => s[i] # s[j]
ExecWins == [i \in 1..Len(exec) |-> exec[i].win]
Executed(h) == \E i \in 1..Len(exec) : exec[i].win = h
InExecuteQueue == pc[Main] \in { "size", "pop" }
\* The step in which park_thread returns (line 63).
ParkReturns == pc[Main] = "size" /\ final /\ pc'[Main] = "idle"

\* C1: the live-context counter equals the number of handles constructed
\* and not yet destroyed; every successfully constructed handle has
\* incremented it once, every destroyed one has decremented it once.
C1_CounterIsLiveCount ==
    /\ active_contexts = Cardinality(LiveHandles)
    /\ \A h \in Handles :
        /\ incs[h] = IF hstate[h] \in { "live", "dying", "released" } THEN 1 ELSE 0
        /\ decs[h] = IF hstate[h] \in { "dying", "released" } THEN 1 ELSE 0

C1_Witness ==
    \E h, k \in Handles :
        /\ hstate[h] = "live" /\ hstate[k] = "released"
        /\ howner[h] # howner[k]
        /\ active_contexts = 1

\* C2: park_thread never returns while a Context Handle is alive: in the
\* step in which it returns, no constructed and not yet destroyed handle
\* exists.
C2_NoReturnWhileLive == [][ParkReturns => LiveHandles' = {}]_vars

\* C3: park_thread returns only with the deferred work done: in the step
\* in which it returns the queue is empty and no handle that was already
\* destroyed (its decrement made) still has its destroy task to enqueue.
\* (That the counter counts no live handle at that step is C2.)
C3_ReturnsDrained ==
    [][ParkReturns =>
        /\ thread_queue' = << >>
        /\ \A h \in Handles : hstate'[h] # "dying"]_vars

\* C4: the destroy task of every handle destroyed while the affinity thread
\* is in park_thread is eventually executed.
C4_DestroyedIsExecuted ==
    \A h \in Handles : (hstate[h] = "dying" /\ InPark) ~> Executed(h)

\* C5: when the handles were created on different worker threads, the
\* counter has reached their number, and every one of them is being or has
\* been destroyed while the affinity thread is in park_thread, then
\* eventually all are destroyed, the queue is empty, the counter is 0 and
\* park_thread has returned.
AllDestroyed == \A h \in Handles : hstate[h] = "released"
C5_ParkEnds ==
    (/\ InPark
     /\ peak = MaxHandles
     /\ \A h \in Handles : hstate[h] \in { "dying", "released" } /\ howner[h] \in Workers
     /\ \A h, k \in Handles : h # k => howner[h] # howner[k])
        ~> (AllDestroyed /\ thread_queue = << >> /\ active_contexts = 0 /\ returned)

\* C6: every task that is in the queue when execute_queue begins is run
\* exactly once by that call: while the call runs it is either still queued
\* or has been run, when the call is over it has been run, and no task is
\* ever run twice.
C6_DrainRunsEachOnce ==
    /\ \A task \in Range(snap) :
        IF InExecuteQueue
          THEN (Count(ran, task) = 1) # (Count(thread_queue, task) = 1)
          ELSE Count(ran, task) = 1
    /\ NoDup(ExecWins)

C6_Witness ==
    /\ ~InExecuteQueue
    /\ Len(snap) >= 2
    /\ Len(ran) >= 2

\* C7: tasks run in the order in which they were enqueued: the tasks run so
\* far, followed by the tasks pending, are the tasks enqueued, in order.
C7_Fifo == ExecWins \o thread_queue = enq

C7_Witness ==
    /\ Len(enq) >= 2
    /\ enq[1] > enq[2]
    /\ howner[enq[1]] # howner[enq[2]]
    /\ ExecWins = enq
    /\ ran = enq

\* C8: glfwDestroyWindow is never called inline where the handle is
\* dropped: every call is made by the affinity thread, from execute_queue.
C8_DestroyOnlyInDrain ==
    \A i \in 1..Len(exec) : exec[i].by = Main /\ exec[i].at = "pop"

C8_Witness ==
    \E i \in 1..Len(exec) :
        /\ howner[exec[i].win] \in Workers
        /\ hstate[exec[i].win] = "released"

\* C9: a construction that fails ends with the error and leaves the counter
\* alone: a handle without a native window never becomes live, the steps of
\* the failing constructor do not change the counter, and the failed handle
\* has neither incremented nor decremented it, and never will.
C9_FailedCtorLeavesCounter ==
    [][\A h \in Handles :
        /\ hstate[h] = "nowin" => hstate'[h] \in { "nowin", "failed" }
        /\ (th[howner[h]] = h /\ pc[howner[h]] = "ctor" /\ pc'[howner[h]] = "throw")
              => active_contexts' = active_contexts
        /\ hstate'[h] = "failed" =>
              /\ incs'[h] = 0 /\ decs'[h] = 0
              /\ hstate[h] # "failed" => active_contexts' = active_contexts
        /\ hstate[h] = "failed" => hstate'[h] = "failed"]_vars

C9_Witness ==
    \E h, k \in Handles :
        /\ hstate[h] = "failed" /\ hstate[k] = "live"
        /\ h \in Range(enq)
        /\ active_contexts = 1

\* C10: a Context Handle is never current on two threads at once.
C10_CurrentOnOneThread ==
    \A t, u \in Threads : (t # u /\ cur[t] # NULL) => cur[t] # cur[u]

\* C11: the native library is never torn down while a Context Handle is
\* live or a destroy task is pending: the step that calls glfwTerminate
\* starts with the counter at 0 and the queue empty.  (The claim asks, on
\* top of this, that park_thread has returned.)
C11_TerminateAfterPark ==
    [][(~terminated /\ terminated') =>
        /\ active_contexts = 0
        /\ thread_queue = << >>]_vars

\* C17: the destroy task of a handle is in the queue before the handle's
\* decrement of the counter is visible: every handle that has made its
\* decrement has had its destroy task enqueued (pending or executed).
C17_EnqueuedBeforeDecrement ==
    \A h \in Handles : decs[h] > 0 => h \in Range(enq)

\* C12: a worker whose routine has ended has released every registry
\* reference it acquired, of every type: its registry entries are gone.
C12_WorkerReleasesAll ==
    \A w \in Workers : (started[w] /\ pc[w] = "idle") => reg[w] = NoReg

\* C13: on each thread the count of a registry entry is the number of
\* get_or_create calls less the number of remove_reference calls, the
\* instance exists exactly while that number is positive, every
\* get_or_create returned the one instance (the one installed by set, for
\* the context), and a step changes the entries of the acting thread only.
RegistryCounts(w) ==
    /\ reg[w].win.n = acq[w] - rel[w]
    /\ (reg[w].win.obj # NULL) <=> (acq[w] > rel[w])
    /\ built[w] = IF acq[w] > 0 THEN 1 ELSE 0
    /\ shown[w] # NULL => shown[w] = wlocal[w]
    /\ reg[w].win.obj # NULL => reg[w].win.obj = wlocal[w]
    /\ cur[w] # NULL => cur[w] = reg[w].ctx.obj
C13_RegistryRefCount ==
    [][\A w \in Workers :
        /\ RegistryCounts(w) /\ RegistryCounts(w)'
        /\ reg'[w] # reg[w] =>
              /\ pc'[w] # pc[w]
              /\ \A v \in Workers \ {w} : reg'[v] = reg[v]]_vars

C13_Witness ==
    \E w, v \in Workers :
        /\ acq[w] = 2 /\ rel[w] = 2 /\ reg[w].win = NoEntry
        /\ shown[w] = 1 /\ wlocal[w] = 1
        /\ reg[v].win = [n |-> 2, obj |-> 1]

\* C15: each worker runs its routine in order: the context is installed
\* and made current, the window utility is made, start runs (once), the
\* window is revealed, and then every iteration tests should-close, and
\* unless it holds runs one update and then one swap; after should-close
\* was seen only the releases follow.
RoutineOrder ==
    { << "none", "set" >>, << "set", "bind" >>, << "bind", "window" >>,
      << "window", "start" >>, << "start", "show" >>,
      << "show", "open" >>, << "show", "close" >>,
      << "open", "update" >>, << "update", "swap" >>,
      << "swap", "open" >>, << "swap", "close" >>,
      << "close", "release" >>, << "release", "release" >> }
C15_RoutineOrder ==
    [][\A w \in Workers :
        /\ step'[w] # step[w] => << step[w].ev, step'[w].ev >> \in RoutineOrder
        /\ (cur'[w] # NULL) <=> (step'[w].ev \notin { "none", "set" })
        /\ (shown'[w] # NULL) <=>
              (step'[w].ev \notin { "none", "set", "bind", "window", "start" })
        /\ rel'[w] > 0 => step'[w].ev = "release"]_vars

C15_Witness ==
    \E w, v \in Workers :
        /\ step[w].ev = "swap"
        /\ step[v].ev = "release" /\ rel[v] = 2

\* C16: execute_queue never suspends in remove(): whenever the affinity
\* thread is about to pop, the queue holds a task, whatever the producers
\* have added meanwhile; a call that finds the queue empty runs nothing and
\* returns at once.
PopHasTask == pc[Main] = "pop" => get_size(thread_queue) > 0
C16_DrainNeverBlocks ==
    [][/\ PopHasTask /\ PopHasTask'
       /\ (pc[Main] = "size" /\ get_size(thread_queue) = 0 /\ pc'[Main] # "size")
            => /\ pc'[Main] \in { "loop", "idle" }
               /\ exec' = exec /\ ran' = ran]_vars

C16_Witness ==
    /\ pc[Main] = "pop"
    /\ Len(ran) >= 1
    /\ Len(ran) + get_size(thread_queue) > Len(snap)

\* C14: the constructor has the new context current on the constructing
\* thread only, and only until it returns: a handle under construction is
\* current on no other thread, and in the step in which a successful
\* constructor returns the new handle is current on no thread.
C14_CtorRelinquishes ==
    [][\A h \in Handles :
        /\ hstate[h] = "created" =>
              \A u \in Threads : cur[u] = h => u = howner[h]
        /\ (hstate[h] = "created" /\ hstate'[h] = "live") =>
              \A u \in Threads : cur'[u] # h]_vars

C14_Witness ==
    \E h, k \in Handles :
        /\ hstate[h] = "live" /\ cur[howner[h]] = h
        /\ hstate[k] = "live" /\ howner[k] # howner[h] /\ incs[k] = 1
        /\ \A u \in Threads : cur[u] # k

====
